---- MODULE Spec2Model ----
(***************************************************************************)
(* LINAC downtime analysis: the classification client                      *)
(* (linac_failure_classifier.py) and the three report extractors           *)
(* (report_type{1,2,3}_processing.py).                                     *)
(*                                                                         *)
(* A Python str is modelled as a sequence of tokens (each token a TLA+     *)
(* string standing for that run of characters); concatenating the tokens   *)
(* gives the Python string.  The tokens are chosen so that substring       *)
(* search, split, strip and the regular expressions of the source act on   *)
(* whole tokens.                                                           *)
(***************************************************************************)
EXTENDS Integers, Sequences, FiniteSets, TLC

\* ---------------------------------------------------------------- bounds
\* the extractors are explored on every text of at most MaxChunks report fragments
MaxChunks == 2
\* the batch runners are explored on folders of at most MaxFiles files
MaxFiles == 2
\* classify_report is explored for max_retries in -1 .. MaxRetries
MaxRetries == 3
\* classify_dataframe is explored on tables of at most MaxRows rows
MaxRows == 2
\* the fence extraction is explored on every response of at most MaxLen tokens
MaxLen == 5

\* ------------------------------------------------------ program constants
\* def classify_report(self, subject, description, max_retries: int = 3)
DefaultMaxRetries == 3

\* ------------------------------------------------------------ str helpers
\* three backquotes, the markdown code fence (a backquote cannot be written in a
\* string of the module)
FENCE == "'''"
TAGJSON == "json"
WhiteSpace == {" ", "\n"}

IsWS(tok) == tok \in WhiteSpace

RECURSIVE LStrip(_)
LStrip(s) ==
    IF s # <<>> /\ IsWS(Head(s)) THEN LStrip(Tail(s)) ELSE s

RECURSIVE RStrip(_)
RStrip(s) ==
    IF s # <<>> /\ IsWS(s[Len(s)]) THEN RStrip(SubSeq(s, 1, Len(s) - 1)) ELSE s

\* str.strip()
Strip(s) == RStrip(LStrip(s))

\* positions at which sub occurs in s
Occurrences(s, sub) ==
    {i \in 1..(Len(s) - Len(sub) + 1) : SubSeq(s, i, i + Len(sub) - 1) = sub}

\* sub in s
Contains(s, sub) == Occurrences(s, sub) # {}

Min(S) == CHOOSE x \in S : \A y \in S : x <= y

\* s.split(sep): the pieces between the non-overlapping occurrences of sep,
\* found left to right
RECURSIVE Split(_, _)
Split(s, sep) ==
    IF ~Contains(s, sep) THEN <<s>>
    ELSE LET i == Min(Occurrences(s, sep))
         IN  <<SubSeq(s, 1, i - 1)>> \o Split(SubSeq(s, i + Len(sep), Len(s)), sep)

\* ------------------------------------------------------------------ JSON
\* Tokens that stand for one complete JSON document each.
OBJ == "{ft: Beam Generation}"      \* {"failure_type": "Beam Generation"}
OBJX == "{ft: Flux Capacitor}"      \* {"failure_type": "Flux Capacitor"}, not one of the twelve labels
NOKEY == "{}"                       \* {}
NONSTR == "{ft: 7}"                 \* {"failure_type": 7}
LST == "[]"                         \* []
JUNK == "Sure"                      \* prose, not JSON
PY == "python"                      \* a word that is not JSON; after a fence, a language tag

JStr(s) == [t |-> "str", s |-> s, n |-> 0]
JInt(n) == [t |-> "int", s |-> <<>>, n |-> n]
EmptyMap == [k \in {} |-> JInt(0)]
JDict(d) == [t |-> "dict", d |-> d]
JList == [t |-> "list", d |-> EmptyMap]

\* the Python value of each JSON document token
JSONValue(tok) ==
    CASE tok = OBJ -> JDict([failure_type |-> JStr(<<"Beam Generation">>)])
      [] tok = OBJX -> JDict([failure_type |-> JStr(<<"Flux Capacitor">>)])
      [] tok = NOKEY -> JDict(EmptyMap)
      [] tok = NONSTR -> JDict([failure_type |-> JInt(7)])
      [] tok = LST -> JList

ValueTokens == {OBJ, OBJX, NOKEY, NONSTR, LST}

\* json.loads(s) succeeds: one JSON document, surrounded by optional whitespace
Parses(s) == Len(Strip(s)) = 1 /\ Strip(s)[1] \in ValueTokens

\* a json.loads followed by a check of the category against the known labels
JSONLoadsValidated(s) ==
    IF Strip(s)[1] = OBJX
    THEN JDict([failure_type |-> JStr(<<"Unknown">>)])
    ELSE JSONValue(Strip(s)[1])

\* json.loads(s) when it succeeds
JSONLoads(s) == JSONValue(Strip(s)[1])

\* str(e) of the json.JSONDecodeError that json.loads(s) raises
DecodeErrorMsg(s) == <<"JSONDecodeError at">> \o s

\* the two tests in the other order: the bare fence is looked for first
ExtractBareFenceFirst(content) ==
    LET result_text == Strip(content)
    IN  IF Contains(result_text, <<FENCE>>)
        THEN Strip(Split(Split(result_text, <<FENCE>>)[2], <<FENCE>>)[1])
        ELSE result_text

\* lines 132-139: the text handed to json.loads
ExtractJSONText(content) ==
    LET result_text == Strip(content)
    IN  IF Contains(result_text, <<FENCE, TAGJSON>>)
        THEN Strip(Split(Split(result_text, <<FENCE, TAGJSON>>)[2], <<FENCE>>)[1])
        ELSE IF Contains(result_text, <<FENCE>>)
        THEN Strip(Split(Split(result_text, <<FENCE>>)[2], <<FENCE>>)[1])
        ELSE result_text

\* ---------------------------------------------------- regular expressions
\* A pattern is a sequence of items, each a set of tokens with a repetition
\* range, greedy or lazy, and the list of its groups as <<first item, last item>>.
\* A token stands for a run of characters that the patterns of the source match
\* as a whole or not at all.
Max(S) == CHOOSE x \in S : \A y \in S : x >= y
Lit(tok) == [cls |-> {tok}, min |-> 1, many |-> FALSE, greedy |-> TRUE]
One(cls) == [cls |-> cls, min |-> 1, many |-> FALSE, greedy |-> TRUE]
Plus(cls) == [cls |-> cls, min |-> 1, many |-> TRUE, greedy |-> TRUE]
Star(cls) == [cls |-> cls, min |-> 0, many |-> TRUE, greedy |-> TRUE]
PlusLazy(cls) == [cls |-> cls, min |-> 1, many |-> TRUE, greedy |-> FALSE]
StarLazy(cls) == [cls |-> cls, min |-> 0, many |-> TRUE, greedy |-> FALSE]

Fail == <<0>>
Least(S) == CHOOSE x \in S : \A y \in S : x <= y

\* how many tokens of text from position p on are in cls: at most one, or any number
RunLen(text, p, cls, many) ==
    IF p > Len(text) \/ text[p] \notin cls THEN 0
    ELSE IF ~many THEN 1
    ELSE LET stops == {q \in p..Len(text) : text[q] \notin cls}
         IN  IF stops = {} THEN Len(text) - p + 1 ELSE Least(stops) - p

\* The backtracking match of items i.. at position p: the end position of each
\* item, or Fail.  A greedy item takes the most repetitions with which the rest
\* still matches, a lazy one the fewest.
RECURSIVE MatchAt(_, _, _, _)
MatchAt(items, text, i, p) ==
    IF i > Len(items) THEN <<>>
    ELSE LET it == items[i]
             most == RunLen(text, p, it.cls, it.many)
             \* each number of repetitions with the match of the rest after it
             tries == {<<n, MatchAt(items, text, i + 1, p + n)>> : n \in it.min..most}
             ok == {t \in tries : t[2] # Fail}
             counts == {t[1] : t \in ok}
             n == IF it.greedy THEN Max(counts) ELSE Least(counts)
             best == CHOOSE t \in ok : t[1] = n
         IN  IF ok = {} THEN Fail ELSE <<p + n>> \o best[2]

NoMatch == [start |-> 0, ends |-> <<>>]

\* re.search from position p on: the leftmost match
SearchFrom(pat, text, p) ==
    LET found == {<<q, MatchAt(pat.items, text, 1, q)>> : q \in p..(Len(text) + 1)}
        ok == {t \in found : t[2] # Fail}
        start == Least({t[1] : t \in ok})
        first == CHOOSE t \in ok : t[1] = start
    IN  IF ok = {} THEN NoMatch ELSE [start |-> start, ends |-> first[2]]

\* re.search(pattern, text)
Search(pat, text) == SearchFrom(pat, text, 1)

\* match.group(g)
Group(pat, text, m, g) ==
    LET first == pat.groups[g][1]
        from == IF first = 1 THEN m.start ELSE m.ends[first - 1]
    IN  SubSeq(text, from, m.ends[pat.groups[g][2]] - 1)

\* match.groups()
Groups(pat, text, m) == [g \in 1..Len(pat.groups) |-> Group(pat, text, m, g)]

\* re.findall(pattern, text) for a pattern with several groups: the groups of
\* each match, the matches found left to right without overlap
RECURSIVE FindAllFrom(_, _, _)
FindAllFrom(pat, text, p) ==
    LET m == SearchFrom(pat, text, p)
    IN  IF m = NoMatch THEN <<>>
        ELSE <<Groups(pat, text, m)>> \o FindAllFrom(pat, text, m.ends[Len(m.ends)])

\* mutation of FindAll: only the first match is returned
FindAllFirstOnly(pat, text) ==
    LET m == Search(pat, text)
    IN  IF m = NoMatch THEN <<>> ELSE <<Groups(pat, text, m)>>

FindAll(pat, text) == FindAllFrom(pat, text, 1)

\* ------------------------------------------------------ report vocabulary
\* The tokens of a report's text, by the character classes they fall in.
WS == {" ", "\n"}
DigitsTok == {"12345", "777", "4001"}
DecimalTok == {"3.5", "1.0", "2.0"}
DateTok == {"01/02/2024", "03/04/2024"}
ClockTok == {"09:15", "11:45"}
ClockSecTok == {"10:20:30"}
MeridiemTok == {"AM", "PM"}
UpperIdTok == {"LINAC01"}
WordTok == {"Gantry", "fault", "Page"}
LabelTok ==
    {"Work Order", "WO-", "Asset", "Subject", "Closure Summary", "Times",
     "Malfunction Start", ":", "Machine Release", "Time In", "Time Out",
     "Agreed Downtime", "Site Hours", "Travel Hours", "Work Hours", "Total",
     "Notification No.", "Equipment ID", "Equipment Name", "Reason for Call",
     "Corrective Action Comments", "Times on site", "Event Date",
     "Equipment Released", "Customer Signature",
     "Number", "Installed Product", "Problem Description",
     "Work Performed Comments", "Follow Up Comments", "Time"}
AllTok ==
    WS \cup DigitsTok \cup DecimalTok \cup DateTok \cup ClockTok \cup ClockSecTok
       \cup MeridiemTok \cup UpperIdTok \cup WordTok \cup LabelTok

NotNewline == AllTok \ {"\n"}              \* . and [^\n]
NonSpace == AllTok \ WS                    \* \S
DigitsSlash == DigitsTok \cup DateTok      \* [\d/]
DigitsColon == DigitsTok \cup ClockTok \cup ClockSecTok     \* [\d:]
DigitsDot == DigitsTok \cup DecimalTok     \* [\d.], [0-9.], and \d+\.?\d* as a whole
UpperDigits == UpperIdTok \cup DigitsTok \cup MeridiemTok   \* [A-Z0-9]

\* a str field of a record, and None
PyNone == [t |-> "NoneType", s |-> <<>>, n |-> 0]

\* ([\d/]+ [\d:]+ [APM]+), the timestamp of the type 1 patterns (items k..k+4)
Stamp12h == <<Plus(DigitsSlash), Lit(" "), Plus(DigitsColon), Lit(" "), Plus(MeridiemTok)>>

\* ------------------------------------- report_type1_processing.py patterns
\* line 15: r"Work Order\s+WO-(\d+)"
P1_work_order_id ==
    [items |-> <<Lit("Work Order"), Plus(WS), Lit("WO-"), Plus(DigitsTok)>>,
     groups |-> <<<<4, 4>>>>]
\* line 16: r"Asset\s+(\S+)"
P1_machine_id ==
    [items |-> <<Lit("Asset"), Plus(WS), Plus(NonSpace)>>, groups |-> <<<<3, 3>>>>]
\* line 17: r"Subject\s+(.+)"
P1_subject ==
    [items |-> <<Lit("Subject"), Plus(WS), Plus(NotNewline)>>, groups |-> <<<<3, 3>>>>]
\* line 18: r"Closure Summary\s+([\s\S]+?)\nWork Order Times"
P1_description ==
    [items |-> <<Lit("Closure Summary"), Plus(WS), PlusLazy(AllTok), Lit("\n"),
                 Lit("Work Order"), Lit(" "), Lit("Times")>>,
     groups |-> <<<<3, 3>>>>]
\* line 19: r"Malfunction Start\s*:\s*([\d/]+ [\d:]+ [APM]+)"
P1_malfunction_start ==
    [items |-> <<Lit("Malfunction Start"), Star(WS), Lit(":"), Star(WS)>> \o Stamp12h,
     groups |-> <<<<5, 9>>>>]
\* line 20: r"Machine Release\s*([\d/]+ [\d:]+ [APM]+)"
P1_machine_release ==
    [items |-> <<Lit("Machine Release"), Star(WS)>> \o Stamp12h, groups |-> <<<<3, 7>>>>]
\* line 21: r"Time In\s*([\d/]+ [\d:]+ [APM]+)"
P1_time_in ==
    [items |-> <<Lit("Time In"), Star(WS)>> \o Stamp12h, groups |-> <<<<3, 7>>>>]
\* line 22: r"Time Out\s*([\d/]+ [\d:]+ [APM]+)"
P1_time_out ==
    [items |-> <<Lit("Time Out"), Star(WS)>> \o Stamp12h, groups |-> <<<<3, 7>>>>]
\* line 23: r"Agreed Downtime\s*(\d+\.?\d*)"
P1_down_time_hours ==
    [items |-> <<Lit("Agreed Downtime"), Star(WS), One(DigitsDot)>>, groups |-> <<<<3, 3>>>>]
\* line 24: r"Site Hours\s*(\d+\.?\d*)"
P1_site_hours ==
    [items |-> <<Lit("Site Hours"), Star(WS), One(DigitsDot)>>, groups |-> <<<<3, 3>>>>]
\* line 25: r"Travel Hours\s*(\d+\.?\d*)"
P1_travel_hours ==
    [items |-> <<Lit("Travel Hours"), Star(WS), One(DigitsDot)>>, groups |-> <<<<3, 3>>>>]
\* line 26: r"Total Work Hours\s*(\d+\.?\d*)"
P1_total_work_hours ==
    [items |-> <<Lit("Total"), Lit(" "), Lit("Work Hours"), Star(WS), One(DigitsDot)>>,
     groups |-> <<<<5, 5>>>>]

\* lines 29-35: the value kept for one key
Type1Value(key, pat, text) ==
    LET match == Search(pat, text)
    IN  IF key = "work_order_id" /\ match # NoMatch
        THEN JStr(<<"WO-">> \o Strip(Group(pat, text, match, 1)))
        ELSE IF match # NoMatch
        THEN JStr(Strip(Group(pat, text, match, 1)))
        ELSE PyNone

\* extract_data_from_pdf, on the text of the pages
ExtractType1(text) ==
    [work_order_id |-> Type1Value("work_order_id", P1_work_order_id, text),
     machine_id |-> Type1Value("machine_id", P1_machine_id, text),
     subject |-> Type1Value("subject", P1_subject, text),
     description |-> Type1Value("description", P1_description, text),
     malfunction_start |-> Type1Value("malfunction_start", P1_malfunction_start, text),
     machine_release |-> Type1Value("machine_release", P1_machine_release, text),
     time_in |-> Type1Value("time_in", P1_time_in, text),
     time_out |-> Type1Value("time_out", P1_time_out, text),
     down_time_hours |-> Type1Value("down_time_hours", P1_down_time_hours, text),
     site_hours |-> Type1Value("site_hours", P1_site_hours, text),
     travel_hours |-> Type1Value("travel_hours", P1_travel_hours, text),
     total_work_hours |-> Type1Value("total_work_hours", P1_total_work_hours, text),
     report_source |-> JStr(<<"varian">>)]

\* ------------------------------------- report_type2_processing.py patterns
\* mutation of Find: the captured group is returned as it stands in the text
FindUntrimmed(pat, text) ==
    LET match == Search(pat, text)
    IN  IF match # NoMatch THEN Group(pat, text, match, 1) ELSE <<>>

\* lines 12-14: find(pattern, group=1, flags=0, fallback="")
Find(pat, text) ==
    LET match == Search(pat, text)
    IN  IF match # NoMatch THEN Strip(Group(pat, text, match, 1)) ELSE <<>>

\* \d{1,2}:\d{2}\s+[AP]M (items k..k+2)
Clock12h == <<One(ClockTok), Plus(WS), One(MeridiemTok)>>

\* lines 17-19:
\* r"(\d{1,2}/\d{1,2}/\d{4})\s+(\d{1,2}:\d{2}\s+[AP]M)\s+(\d{1,2}:\d{2}\s+[AP]M)"
P2_time_entries ==
    [items |-> <<One(DateTok), Plus(WS)>> \o Clock12h \o <<Plus(WS)>> \o Clock12h,
     groups |-> <<<<1, 1>>, <<3, 5>>, <<7, 9>>>>]
\* line 24: r"Notification No\.\s+(\d+)"
P2_work_order_id ==
    [items |-> <<Lit("Notification No."), Plus(WS), Plus(DigitsTok)>>,
     groups |-> <<<<3, 3>>>>]
\* line 25: r"Equipment ID\s+Equipment Name\s+([A-Z0-9]+)"
P2_machine_id ==
    [items |-> <<Lit("Equipment ID"), Plus(WS), Lit("Equipment Name"), Plus(WS),
                 Plus(UpperDigits)>>,
     groups |-> <<<<5, 5>>>>]
\* line 26: r"Reason for Call\s+([^\n]+)"
P2_subject ==
    [items |-> <<Lit("Reason for Call"), Plus(WS), Plus(NotNewline)>>,
     groups |-> <<<<3, 3>>>>]
\* line 27: r"Corrective Action Comments(.*?)Times on site", re.DOTALL
P2_description ==
    [items |-> <<Lit("Corrective Action Comments"), StarLazy(AllTok), Lit("Times on site")>>,
     groups |-> <<<<2, 2>>>>]
\* line 28: r"Event Date\s+([\d/]+\s+\d+:\d+:\d+\s+[AP]M?)"
P2_malfunction_start ==
    [items |-> <<Lit("Event Date"), Plus(WS), Plus(DigitsSlash), Plus(WS),
                 One(ClockSecTok), Plus(WS), One(MeridiemTok)>>,
     groups |-> <<<<3, 7>>>>]
\* line 29: r"Equipment Released\s+Customer Signature\s+
\*           (\d{1,2}/\d{1,2}/\d{4}\s+\d{1,2}:\d{2}\s+[AP]M)"
P2_machine_release ==
    [items |-> <<Lit("Equipment Released"), Plus(WS), Lit("Customer Signature"), Plus(WS),
                 One(DateTok), Plus(WS)>> \o Clock12h,
     groups |-> <<<<5, 9>>>>]
\* line 32: r"Total [^\n]*?\s+([\d.]+)\s+([\d.]+)\s+([\d.]+)"
P2_hours_block ==
    [items |-> <<Lit("Total"), Lit(" "), StarLazy(NotNewline), Plus(WS), Plus(DigitsDot),
                 Plus(WS), Plus(DigitsDot), Plus(WS), Plus(DigitsDot)>>,
     groups |-> <<<<5, 5>>, <<7, 7>>, <<9, 9>>>>]

\* extract_report_data of report_type2_processing.py, on the text of the pages;
\* filename is the file's base name without its extension
ExtractType2(text, filename) ==
    LET time_entries == FindAll(P2_time_entries, text)
        n == Len(time_entries)
        hours_block == Search(P2_hours_block, text)
        hours == IF hours_block # NoMatch
                 THEN Groups(P2_hours_block, text, hours_block)
                 ELSE <<<<>>, <<>>, <<>>>>
    IN  [work_order_id |-> JStr(Find(P2_work_order_id, text)),
         machine_id |-> JStr(Find(P2_machine_id, text)),
         subject |-> JStr(Find(P2_subject, text)),
         description |-> JStr(Strip(Find(P2_description, text))),
         malfunction_start |-> JStr(Find(P2_malfunction_start, text)),
         machine_release |-> JStr(Find(P2_machine_release, text)),
         time_in |-> JStr(IF n > 0
                          THEN time_entries[1][1] \o <<" ">> \o time_entries[1][2]
                          ELSE <<>>),
         time_out |-> JStr(IF n > 0
                           THEN time_entries[n][1] \o <<" ">> \o time_entries[n][3]
                           ELSE <<>>),
         down_time_hours |-> JStr(<<>>),
         site_hours |-> JStr(hours[3]),
         travel_hours |-> JStr(hours[1]),
         total_work_hours |-> JStr(hours[2]),
         report_source |-> JStr(<<"varian">>),
         file_name |-> JStr(filename)]

\* ------------------------------------- report_type3_processing.py patterns
\* (\d{2}/\d{2}/\d{4} \d{2}:\d{2}) (items k..k+2)
Stamp24h == <<One(DateTok), Lit(" "), One(ClockTok)>>

\* lines 19-24: r"Time In\s+Time Out\s+Malfunction Start\s+Machine Release Time\s+"
\* and four timestamps separated by \s+
P3_times ==
    [items |-> <<Lit("Time In"), Plus(WS), Lit("Time Out"), Plus(WS),
                 Lit("Malfunction Start"), Plus(WS), Lit("Machine Release"), Lit(" "),
                 Lit("Time"), Plus(WS)>>
               \o Stamp24h \o <<Plus(WS)>> \o Stamp24h \o <<Plus(WS)>>
               \o Stamp24h \o <<Plus(WS)>> \o Stamp24h,
     groups |-> <<<<11, 13>>, <<15, 17>>, <<19, 21>>, <<23, 25>>>>]
\* line 29: r"Work Order Number\s+(WO-\d+)"
P3_work_order_id ==
    [items |-> <<Lit("Work Order"), Lit(" "), Lit("Number"), Plus(WS), Lit("WO-"),
                 Plus(DigitsTok)>>,
     groups |-> <<<<5, 6>>>>]
\* line 30: r"Installed Product\s+([A-Z0-9]+)"
P3_machine_id ==
    [items |-> <<Lit("Installed Product"), Plus(WS), Plus(UpperDigits)>>,
     groups |-> <<<<3, 3>>>>]
\* line 31: r"Problem Description\s+(.+?)(?:\n|Work Performed Comments)", re.DOTALL
P3_subject ==
    [items |-> <<Lit("Problem Description"), Plus(WS), PlusLazy(AllTok),
                 One({"\n", "Work Performed Comments"})>>,
     groups |-> <<<<3, 3>>>>]
\* line 32: r"Work Performed Comments\s+(.+?)(?:\nFollow Up Comments|\n\n)", re.DOTALL
P3_description ==
    [items |-> <<Lit("Work Performed Comments"), Plus(WS), PlusLazy(AllTok), Lit("\n"),
                 One({"Follow Up Comments", "\n"})>>,
     groups |-> <<<<3, 3>>>>]
\* lines 36-38: r"Total Travel Hours\s+Total Work Hours\s+Total Site Hours\s+
\*               Agreed Downtime\s*\n([0-9.]+)\s+([0-9.]+)\s+([0-9.]+)"
P3_hours ==
    [items |-> <<Lit("Total"), Lit(" "), Lit("Travel Hours"), Plus(WS),
                 Lit("Total"), Lit(" "), Lit("Work Hours"), Plus(WS),
                 Lit("Total"), Lit(" "), Lit("Site Hours"), Plus(WS),
                 Lit("Agreed Downtime"), Star(WS), Lit("\n"),
                 Plus(DigitsDot), Plus(WS), Plus(DigitsDot), Plus(WS), Plus(DigitsDot)>>,
     groups |-> <<<<16, 16>>, <<18, 18>>, <<20, 20>>>>]

\* extract_report_data of report_type3_processing.py
ExtractType3(text, filename) ==
    LET times_match == Search(P3_times, text)
        times == IF times_match # NoMatch
                 THEN Groups(P3_times, text, times_match)
                 ELSE <<<<>>, <<>>, <<>>, <<>>>>
        hours_match == Search(P3_hours, text)
        hours == IF hours_match # NoMatch
                 THEN Groups(P3_hours, text, hours_match)
                 ELSE <<<<>>, <<>>, <<>>>>
    IN  [work_order_id |-> JStr(Find(P3_work_order_id, text)),
         machine_id |-> JStr(Find(P3_machine_id, text)),
         subject |-> JStr(Find(P3_subject, text)),
         description |-> JStr(Find(P3_description, text)),
         malfunction_start |-> JStr(times[3]),
         machine_release |-> JStr(times[4]),
         time_in |-> JStr(times[1]),
         time_out |-> JStr(times[2]),
         down_time_hours |-> JStr(<<>>),
         site_hours |-> JStr(hours[3]),
         travel_hours |-> JStr(hours[1]),
         total_work_hours |-> JStr(hours[2]),
         report_source |-> JStr(<<"varian">>),
         file_name |-> JStr(filename)]

\* ------------------------------------------------- classification client
VARIABLES
    mode,           \* "report": classify_report called directly; "mock": classify_report
                    \* over a mocked transport; "dataframe": classify_dataframe
    mock,           \* the text a mocked transport returns on every call
    rows,           \* the input table of classify_dataframe
    rowIdx,         \* the row progress_apply is at
    column,         \* the values of df[output_col] computed so far
    table,          \* the table classify_dataframe returns
    subject,        \* classify_report's arguments
    description,
    max_retries,
    user_prompt,    \* the request built from them
    attempt,        \* the loop variable of "for attempt in range(max_retries)"
    calls,          \* external calls made by this invocation of classify_report
    result_text,    \* the local variable result_text (Unbound until first assigned)
    hist,           \* what each attempt so far ended in
    last,           \* what the external call did on the latest attempt
    pc,
    result          \* the value classify_report returns

\* the extraction scripts
VARIABLES
    variant,        \* which script runs: 1, 2 or 3 (report_type<variant>_processing.py)
    folder,         \* os.listdir of the input directory, in listing order
    pdf_files,      \* the files the batch runner iterates over
    idx,            \* the file it is at
    data,           \* the records collected so far
    frame,          \* the table the batch runner returns
    bpc

dfvars == <<mode, mock, rows, rowIdx, column, table>>
argvars == <<subject, description, max_retries, user_prompt>>
cvars == <<dfvars, argvars, attempt, calls, result_text, hist, last, pc, result>>
evars == <<variant, folder, pdf_files, idx, data, frame, bpc>>
vars == <<cvars, evars>>

Unbound == <<"<unbound>">>
NoResult == [t |-> "none", d |-> EmptyMap]
NoCall == [kind |-> "nocall", exc |-> "", msg |-> <<>>, content |-> <<>>]

\* line 147
ParseErrorResult(raw, msg) ==
    JDict([failure_type |-> JStr(<<"ParseError">>), raw_response |-> JStr(raw),
           error |-> JStr(msg)])

\* line 152
APIErrorResult(msg) ==
    JDict([failure_type |-> JStr(<<"APIError">>), error |-> JStr(msg)])

\* line 154
UnknownErrorResult == JDict([failure_type |-> JStr(<<"UnknownError">>)])

\* What self.client.chat.completions.create can do on one attempt: raise (an
\* exception that is a json.JSONDecodeError, or any other Exception), return a
\* response whose message content is None, or return a response with text.
RaiseMsgs == {<<"timeout">>, <<"rate limit">>}
DecodeMsgs == {<<"Expecting value">>}
CallRaise(exc, msg) == [kind |-> "raise", exc |-> exc, msg |-> msg, content |-> <<>>]
CallNone == [kind |-> "none", exc |-> "", msg |-> <<>>, content |-> <<>>]
CallText(c) == [kind |-> "text", exc |-> "", msg |-> <<>>, content |-> c]

Responses ==
    { <<OBJ>>,
      <<FENCE, TAGJSON, "\n", OBJX, "\n", FENCE>>,
      <<"\n", FENCE, "\n", NOKEY, FENCE, " ">>,
      <<LST>>,
      <<NONSTR>>,
      <<" ", JUNK, " ">>,
      <<FENCE, PY, "\n", OBJ, "\n", FENCE>> }

\* every text of at most MaxLen tokens over the tokens that decide the parsing
FenceAlphabet == {FENCE, TAGJSON, PY, "\n", OBJ}
Texts == UNION {[1..n -> FenceAlphabet] : n \in 0..MaxLen}

\* str(x) of a table cell: a str is itself, a missing value (NaN) is "nan"
NaN == [t |-> "float", s |-> <<>>, n |-> 0]
PyStr(cell) == IF cell.t = "str" THEN cell.s ELSE <<"nan">>

Cells == {JStr(<<"GFIL, down">>), NaN}
Rows == [subject : Cells, description : {JStr(<<"Replaced gun">>)}]
Tables == UNION {[1..n -> Rows] : n \in 1..MaxRows}

\* lines 110-119: the f-string, around the formatted examples
UserPrompt(subj, desc) ==
    <<"Here are the examples:", "<formatted_examples>", "Classify this report:",
      "Subject: ">> \o subj \o <<"\n", "Description: ">> \o desc \o <<"\n">>

\* entering classify_report
Enter(subj, desc, retries) ==
    /\ subject' = subj
    /\ description' = desc
    /\ max_retries' = retries
    /\ user_prompt' = UserPrompt(subj, desc)
    /\ attempt' = 0
    /\ calls' = 0
    /\ result_text' = Unbound
    /\ hist' = <<>>
    /\ last' = NoCall
    /\ result' = NoResult
    /\ pc' = "loop"

\* the extraction scripts are not running
NoExtraction ==
    /\ variant = 0 /\ folder = <<>> /\ pdf_files = <<>> /\ idx = 0
    /\ data = <<>> /\ frame = <<>> /\ bpc = "off"

InitReport ==
    /\ mode = "report"
    /\ NoExtraction
    /\ mock = <<>>
    /\ rows = <<>> /\ rowIdx = 0 /\ column = <<>> /\ table = <<>>
    /\ subject \in {PyStr(c) : c \in Cells}
    /\ description = <<"Replaced gun">>
    /\ max_retries \in (-1)..MaxRetries
    /\ user_prompt = UserPrompt(subject, description)
    /\ attempt = 0 /\ calls = 0 /\ result_text = Unbound /\ hist = <<>>
    /\ last = NoCall /\ result = NoResult
    /\ pc = "loop"

\* classify_report over a transport mocked to return the same text on every call
InitMock ==
    /\ mode = "mock"
    /\ NoExtraction
    /\ mock \in Texts
    /\ rows = <<>> /\ rowIdx = 0 /\ column = <<>> /\ table = <<>>
    /\ subject = <<"GFIL, down">>
    /\ description = <<"Replaced gun">>
    /\ max_retries \in 1..MaxRetries
    /\ user_prompt = UserPrompt(subject, description)
    /\ attempt = 0 /\ calls = 0 /\ result_text = Unbound /\ hist = <<>>
    /\ last = NoCall /\ result = NoResult
    /\ pc = "loop"

InitDataframe ==
    /\ mode = "dataframe"
    /\ NoExtraction
    /\ mock = <<>>
    /\ rows \in Tables
    /\ rowIdx = 1 /\ column = <<>> /\ table = <<>>
    /\ subject = <<>> /\ description = <<>> /\ max_retries = 0 /\ user_prompt = <<>>
    /\ attempt = 0 /\ calls = 0 /\ result_text = Unbound /\ hist = <<>>
    /\ last = NoCall /\ result = NoResult
    /\ pc = "apply"

InLoop == pc = "loop" /\ attempt < max_retries

\* return r
Return(r, kind) ==
    /\ result' = r
    /\ pc' = "done"
    /\ hist' = Append(hist, kind)
    /\ UNCHANGED attempt

\* an exception leaves classify_report
Propagate(kind) ==
    /\ pc' = "raised"
    /\ hist' = Append(hist, kind)
    /\ UNCHANGED <<result, attempt>>

\* the handler falls through: next iteration of the for loop
NextAttempt(kind) ==
    /\ attempt' = attempt + 1
    /\ pc' = "loop"
    /\ hist' = Append(hist, kind)
    /\ UNCHANGED result

\* a handler that gives up on the first parse failure
OnJSONDecodeErrorNoRetry(text, msg, kind) ==
    IF text = Unbound
    THEN Propagate(kind)
    ELSE Return(ParseErrorResult(text, msg), kind)

\* lines 144-147: except json.JSONDecodeError as e.  Reading result_text when no
\* attempt has assigned it raises UnboundLocalError inside the handler, which no
\* except clause of this try statement catches.
OnJSONDecodeError(text, msg, kind) ==
    IF attempt = max_retries - 1
    THEN IF text = Unbound
         THEN Propagate(kind)
         ELSE Return(ParseErrorResult(text, msg), kind)
    ELSE NextAttempt(kind)

\* a handler that tests the attempt number off by one
OnExceptionOffByOne(msg, kind) ==
    IF attempt = max_retries - 2
    THEN Return(APIErrorResult(msg), kind)
    ELSE NextAttempt(kind)

\* a handler that never returns: the loop goes on after the last attempt too
OnExceptionAlwaysRetry(msg, kind) == NextAttempt(kind)

\* lines 149-152: except Exception as e
OnException(msg, kind) ==
    IF attempt = max_retries - 1
    THEN Return(APIErrorResult(msg), kind)
    ELSE NextAttempt(kind)

\* one iteration in which the call at line 123 raises
AttemptCallRaises ==
    /\ InLoop
    /\ mode # "mock"
    /\ \E exc \in {"Exception", "JSONDecodeError"} :
       \E msg \in (IF exc = "JSONDecodeError" THEN DecodeMsgs ELSE RaiseMsgs) :
        /\ last' = CallRaise(exc, msg)
        /\ calls' = calls + 1
        /\ UNCHANGED result_text
        /\ IF exc = "JSONDecodeError"
           THEN OnJSONDecodeError(result_text, msg, "call_raised_json")
           ELSE OnException(msg, "call_raised")
    /\ UNCHANGED <<dfvars, argvars, evars>>

\* one iteration in which the call returns a message whose content is None:
\* line 132 raises AttributeError
AttemptNoContent ==
    /\ InLoop
    /\ mode # "mock"
    /\ last' = CallNone
    /\ calls' = calls + 1
    /\ UNCHANGED result_text
    /\ OnException(<<"'NoneType' object has no attribute 'strip'">>, "no_content")
    /\ UNCHANGED <<dfvars, argvars, evars>>

\* lines 132-142, then the handler, for a call that returns content
TryParse(content) ==
    /\ last' = CallText(content)
    /\ calls' = calls + 1
    /\ result_text' = ExtractJSONText(content)
    /\ IF Parses(result_text')
       THEN Return(JSONLoads(result_text'), "parsed")
       ELSE OnJSONDecodeError(result_text', DecodeErrorMsg(result_text'), "parse_failed")
    /\ UNCHANGED <<dfvars, argvars, evars>>

\* one iteration in which the call returns text
AttemptReturnsText ==
    /\ InLoop
    /\ mode # "mock"
    /\ \E content \in Responses : TryParse(content)

\* one iteration over the mocked transport
AttemptMockedText ==
    /\ InLoop
    /\ mode = "mock"
    /\ TryParse(mock)

\* line 154: the loop ends without a return
LoopExhausted ==
    /\ pc = "loop"
    /\ attempt >= max_retries
    /\ result' = UnknownErrorResult
    /\ pc' = "done"
    /\ UNCHANGED <<dfvars, argvars, evars, attempt, calls, result_text, hist, last>>

\* lines 184-186
FailureTypeOf(x) ==
    IF x.t = "dict"
    THEN IF "failure_type" \in DOMAIN x.d THEN x.d.failure_type ELSE JStr(<<"Error">>)
    ELSE JStr(<<"Error">>)

\* lines 175-181: progress_apply calls the lambda on the next row
ApplyRow ==
    /\ mode = "dataframe"
    /\ pc = "apply"
    /\ rowIdx <= Len(rows)
    /\ Enter(PyStr(rows[rowIdx].subject), PyStr(rows[rowIdx].description),
             DefaultMaxRetries)
    /\ UNCHANGED <<dfvars, evars>>

\* the lambda returns: the row's value of df[output_col]
RowReturn ==
    /\ mode = "dataframe"
    /\ pc = "done"
    /\ column' = Append(column, result)
    /\ rowIdx' = rowIdx + 1
    /\ pc' = "apply"
    \* the frame of classify_report is gone
    /\ subject' = <<>> /\ description' = <<>> /\ max_retries' = 0 /\ user_prompt' = <<>>
    /\ attempt' = 0 /\ calls' = 0 /\ result_text' = Unbound /\ hist' = <<>>
    /\ last' = NoCall /\ result' = NoResult
    /\ UNCHANGED <<mode, mock, rows, table, evars>>

\* lines 184-189: the failure_type column, and the return
ExtractFailureType ==
    /\ mode = "dataframe"
    /\ pc = "apply"
    /\ rowIdx > Len(rows)
    /\ table' = [i \in 1..Len(rows) |->
                    [subject |-> rows[i].subject,
                     description |-> rows[i].description,
                     llm_classification |-> column[i],
                     failure_type |-> FailureTypeOf(column[i])]]
    /\ pc' = "returned"
    /\ UNCHANGED <<mode, mock, rows, rowIdx, column, argvars, evars,
                   attempt, calls, result_text, hist, last, result>>

Init == InitReport \/ InitMock \/ InitDataframe

Next ==
    \/ AttemptCallRaises
    \/ AttemptNoContent
    \/ AttemptReturnsText
    \/ AttemptMockedText
    \/ LoopExhausted
    \/ ApplyRow
    \/ RowReturn
    \/ ExtractFailureType

Spec == Init /\ [][Next]_vars

\* ----------------------------------------------------- extraction scripts
\* Fragments of report text, in the layouts the three scripts are written for.
D1 == "01/02/2024"
D2 == "03/04/2024"
T1Head ==
    <<"Work Order", " ", "WO-", "12345", "\n", "Asset", " ", "LINAC01", "\n",
      "Subject", " ", "Gantry", " ", "fault", " ", "\n">>
T1Times ==
    <<"Time In", " ", D1, " ", "09:15", " ", "AM", "\n",
      "Time Out", " ", D1, " ", "11:45", " ", "PM", "\n">>
T1Tail ==
    <<"Closure Summary", "\n", "Gantry", " ", "fault", "\n", "Work Order", " ", "Times", "\n",
      "Malfunction Start", ":", " ", D1, " ", "09:15", " ", "AM", "\n",
      "Machine Release", " ", D2, " ", "11:45", " ", "PM", "\n",
      "Agreed Downtime", " ", "3.5", "\n", "Site Hours", " ", "2.0", "\n",
      "Travel Hours", " ", "1.0", "\n", "Total", " ", "Work Hours", " ", "12345", "\n">>
T2Head ==
    <<"Notification No.", " ", "4001", "\n", "Equipment ID", " ", "Equipment Name", "\n",
      "LINAC01", "\n", "Reason for Call", " ", "Gantry", " ", "fault", " ", "\n",
      "Event Date", " ", D1, " ", "10:20:30", " ", "AM", "\n">>
T2RowA == <<D1, " ", "09:15", " ", "AM", " ", "11:45", " ", "AM", "\n">>
T2RowB == <<D2, "\n", "09:15", " ", "PM", " ", "11:45", " ", "PM", "\n">>
T2Tail ==
    <<"Corrective Action Comments", "\n", "Gantry", " ", "fault", "\n", "Times on site", "\n",
      "Total", " ", "Page", " ", "1.0", " ", "2.0", " ", "3.5", "\n",
      "Equipment Released", " ", "Customer Signature", "\n", D2, " ", "11:45", " ", "PM", "\n">>
T3Head ==
    <<"Work Order", " ", "Number", "\n", "WO-", "777", "\n",
      "Installed Product", " ", "LINAC01", "\n",
      "Problem Description", "\n", "Gantry", " ", "fault", " ", "\n",
      "Work Performed Comments", "\n", "fault", " ", "Gantry", "\n",
      "Follow Up Comments", "\n">>
T3Header ==
    <<"Time In", " ", "Time Out", " ", "Malfunction Start", " ", "Machine Release", " ",
      "Time", "\n">>
T3TimesX ==
    T3Header \o <<D1, " ", "09:15", "\n", D1, " ", "11:45", "\n",
                  D1, " ", "09:15", "\n", D2, " ", "09:15", "\n">>
T3TimesY ==
    T3Header \o <<D2, " ", "11:45", "\n", D2, " ", "09:15", "\n",
                  D1, " ", "11:45", "\n", D2, " ", "11:45", "\n">>
T3Hours ==
    <<"Total", " ", "Travel Hours", " ", "Total", " ", "Work Hours", " ",
      "Total", " ", "Site Hours", " ", "Agreed Downtime", "\n",
      "1.0", " ", "2.0", " ", "3.5", "\n">>
PageLine == <<"Page", " ", "12345", "\n">>

Chunks ==
    {T1Head, T1Times, T1Tail, T2Head, T2RowA, T2RowB, T2Tail,
     T3Head, T3TimesX, T3TimesY, T3Hours, PageLine}

RECURSIVE Flatten(_)
Flatten(ss) == IF ss = <<>> THEN <<>> ELSE Head(ss) \o Flatten(Tail(ss))

\* every sequence of at most MaxChunks fragments
ChunkLists == UNION {[1..n -> Chunks] : n \in 0..MaxChunks}

\* what the PDF library gives for a file: it raises, or it returns the text
Unreadable == [readable |-> FALSE, chunks |-> <<>>]
Readable(cs) == [readable |-> TRUE, chunks |-> cs]
TextOf(doc) == Flatten(doc.chunks)

\* the documents of the batches: one that matches the work order pattern of each
\* script, one that matches nothing, one that cannot be opened
BatchDocs == {Readable(<<T1Head, T2Head, T3Head>>), Readable(<<PageLine>>), Unreadable}

Exts == {".pdf", ".PDF", ".txt"}
Lower(ext) == IF ext = ".PDF" THEN ".pdf" ELSE ext
BaseName(i) == <<"report", ToString(i)>>
File(i, ext, doc) == [name |-> BaseName(i), ext |-> ext, doc |-> doc]

\* os.listdir: files with distinct names
Folders ==
    UNION {{[i \in 1..n |-> File(i, e[i], d[i])] :
               e \in [1..n -> Exts], d \in [1..n -> BatchDocs]} : n \in 0..MaxFiles}

\* the classification client is not running
NoClassification ==
    /\ mode = "off" /\ mock = <<>>
    /\ rows = <<>> /\ rowIdx = 0 /\ column = <<>> /\ table = <<>>
    /\ subject = <<>> /\ description = <<>> /\ max_retries = 0 /\ user_prompt = <<>>
    /\ attempt = 0 /\ calls = 0 /\ result_text = Unbound /\ hist = <<>>
    /\ last = NoCall /\ result = NoResult
    /\ pc = "off"

\* one of the three scripts starts on a folder
InitBatch ==
    /\ NoClassification
    /\ variant \in 1..3
    /\ folder \in Folders
    /\ pdf_files = <<>> /\ idx = 0 /\ data = <<>> /\ frame = <<>>
    /\ bpc = "list"

\* one of the three scripts starts on a folder holding one readable PDF
InitSingle ==
    /\ NoClassification
    /\ variant \in 1..3
    /\ folder \in {<<File(1, ".pdf", Readable(cs))>> : cs \in ChunkLists}
    /\ pdf_files = <<>> /\ idx = 0 /\ data = <<>> /\ frame = <<>>
    /\ bpc = "list"

\* report_type1_processing.py line 60: f.endswith('.pdf')
IsPdf1(f) == f.ext = ".pdf"
\* report_type2_processing.py line 56, report_type3_processing.py line 61:
\* f.lower().endswith(".pdf")
IsPdf23(f) == Lower(f.ext) = ".pdf"

\* the listing of the folder, filtered
ListFolder ==
    /\ bpc = "list"
    /\ pdf_files' = IF variant = 1 THEN SelectSeq(folder, IsPdf1)
                    ELSE SelectSeq(folder, IsPdf23)
    /\ idx' = 1
    /\ bpc' = "loop"
    /\ UNCHANGED <<cvars, variant, folder, data, frame>>

\* report_type1_processing.py lines 47-49, for one file
Record1(f) ==
    ExtractType1(TextOf(f.doc)) @@ [file_name |-> JStr(f.name \o <<f.ext>>)]
\* report_type2_processing.py line 61
Record2(f) == ExtractType2(TextOf(f.doc), f.name)
\* report_type3_processing.py line 62
Record3(f) == ExtractType3(TextOf(f.doc), f.name)

\* One iteration of the batch loop.  Opening a file that is no readable PDF
\* raises in the PDF library; nothing in the loop catches it.
ProcessFile(record) ==
    /\ bpc = "loop"
    /\ idx <= Len(pdf_files)
    /\ IF pdf_files[idx].doc.readable
       THEN /\ data' = Append(data, record)
            /\ idx' = idx + 1
            /\ UNCHANGED bpc
       ELSE /\ bpc' = "raised"
            /\ UNCHANGED <<data, idx>>
    /\ UNCHANGED <<cvars, variant, folder, pdf_files, frame>>

ProcessPdf1 == variant = 1 /\ ProcessFile(Record1(pdf_files[idx]))
ProcessPdf2 == variant = 2 /\ ProcessFile(Record2(pdf_files[idx]))
ProcessPdf3 == variant = 3 /\ ProcessFile(Record3(pdf_files[idx]))

\* mutation of BuildFrame: a record in which no work order was found gets no row
HasWorkOrder(r) == r.work_order_id \notin {PyNone, JStr(<<>>)}
BuildFrameMatchedOnly ==
    /\ bpc = "loop"
    /\ idx > Len(pdf_files)
    /\ frame' = SelectSeq(data, HasWorkOrder)
    /\ bpc' = "returned"
    /\ UNCHANGED <<cvars, variant, folder, pdf_files, idx, data>>

\* pd.DataFrame(results): one row per record, in the order collected
BuildFrame ==
    /\ bpc = "loop"
    /\ idx > Len(pdf_files)
    /\ frame' = data
    /\ bpc' = "returned"
    /\ UNCHANGED <<cvars, variant, folder, pdf_files, idx, data>>

InitExtract == InitBatch \/ InitSingle

NextExtract ==
    \/ ListFolder
    \/ ProcessPdf1
    \/ ProcessPdf2
    \/ ProcessPdf3
    \/ BuildFrame

SpecExtract == InitExtract /\ [][NextExtract]_vars

\* ------------------------------------------------------------ claims C1-C5
AllAttempts(kind) == \A i \in 1..Len(hist) : hist[i] = kind
LastAttempt(kind) == hist # <<>> /\ hist[Len(hist)] = kind

\* a mapping that contains the key failure_type with a string value
IsClassification(r) ==
    /\ r.t = "dict"
    /\ "failure_type" \in DOMAIN r.d
    /\ r.d.failure_type.t = "str"

\* C1: classify_report is total: whatever the external call does on each attempt,
\* no exception leaves classify_report, and what it returns is a mapping with a
\* string under failure_type.
C1_Total ==
    /\ pc # "raised"
    /\ pc = "done" => IsClassification(result)

\* C2: when the call raises a transport/request-level error (an exception that the
\* "except Exception" clause handles) on every attempt and max_retries >= 1,
\* classify_report has made exactly max_retries calls when it returns, it returns
\* only then, and it returns {failure_type: APIError, error: m}, m the message
\* raised on the last attempt.
C2_AllRaiseGivesAPIError ==
    (mode = "report" /\ max_retries >= 1 /\ hist # <<>> /\ AllAttempts("call_raised")) =>
        /\ calls = Len(hist)
        /\ calls <= max_retries
        /\ pc \in {"loop", "done"}
        /\ pc = "done" <=> calls = max_retries
        /\ pc = "loop" => attempt = calls /\ result = NoResult
        /\ pc = "done" => result = APIErrorResult(last.msg)

C2_Witness ==
    /\ mode = "report" /\ pc = "done" /\ max_retries >= 2
    /\ AllAttempts("call_raised") /\ calls = max_retries
    /\ result = APIErrorResult(<<"rate limit">>)

\* C3: a response text that fails to parse on an attempt that is not the last
\* leaves classify_report in its loop with an attempt (a new call) to come; one
\* that fails to parse on the last attempt makes it return {failure_type:
\* ParseError, raw_response: t, error: msg}, t the text extracted from that last
\* response and msg the parse error of t.
C3_ParseFailure ==
    LastAttempt("parse_failed") =>
        LET t == ExtractJSONText(last.content)
        IN  /\ last.kind = "text"
            /\ calls = Len(hist)
            /\ result_text = t
            /\ Len(hist) < max_retries => pc = "loop" /\ attempt = Len(hist) /\ InLoop
            /\ Len(hist) >= max_retries =>
                   /\ pc = "done"
                   /\ calls = max_retries
                   /\ result = ParseErrorResult(t, DecodeErrorMsg(t))

\* the last of at least two attempts failed to parse, after an earlier attempt
\* left a different text in result_text
C3_Witness ==
    /\ pc = "done" /\ Len(hist) = 3
    /\ hist[1] = "parse_failed" /\ hist[2] = "call_raised_json"
    /\ LastAttempt("parse_failed")
    /\ last.content = <<" ", JUNK, " ">>
    /\ result = ParseErrorResult(<<JUNK>>, DecodeErrorMsg(<<JUNK>>))

\* the object each parseable response of Responses holds
ParsedObject(content) ==
    CASE content = <<OBJ>> -> JDict([failure_type |-> JStr(<<"Beam Generation">>)])
      [] content = <<FENCE, TAGJSON, "\n", OBJX, "\n", FENCE>> ->
             JDict([failure_type |-> JStr(<<"Flux Capacitor">>)])
      [] content = <<"\n", FENCE, "\n", NOKEY, FENCE, " ">> -> JDict(EmptyMap)
      [] content = <<LST>> -> JList
      [] content = <<NONSTR>> -> JDict([failure_type |-> JInt(7)])
      [] OTHER -> NoResult

\* On the first attempt k whose response parses, classify_report returns the
\* parsed object as it is, whether or not its category is one of the twelve
\* labels, having made exactly k calls, whatever attempts 1..k-1 failed with.
\* (The state part of C5.)
C5_Returned ==
    /\ (last.kind = "text" /\ ParsedObject(last.content) # NoResult) =>
           /\ pc = "done"
           /\ LastAttempt("parsed")
           /\ result = ParsedObject(last.content)
    /\ LastAttempt("parsed") =>
           /\ pc = "done"
           /\ calls = Len(hist)
           /\ calls <= max_retries
           /\ \A i \in 1..(Len(hist) - 1) : hist[i] # "parsed"
           /\ mode # "mock" => ParsedObject(last.content) # NoResult

\* C5: on the first attempt k whose response parses, classify_report returns the
\* parsed object unchanged and unvalidated after exactly k calls (C5_Returned), and
\* once it has returned it makes no further call.
C5_FirstParseReturns ==
    /\ []C5_Returned
    /\ [][(mode = "report" /\ pc = "done") => UNCHANGED <<calls, result>>]_vars

C5_Witness ==
    /\ pc = "done" /\ Len(hist) = 3 /\ calls = 3
    /\ hist[1] = "parse_failed" /\ hist[2] = "call_raised" /\ hist[3] = "parsed"
    /\ result = JDict([failure_type |-> JStr(<<"Flux Capacitor">>)])

\* ---------------------------------------------------------------- claim C4
\* the positions of the fences of t
FenceAt(t) == {i \in 1..Len(t) : t[i] = FENCE}

\* a text with one fenced block: an opening fence and a closing fence, the
\* closing one not directly followed by the word json
OneBlock(t) ==
    /\ Cardinality(FenceAt(t)) = 2
    /\ \A i \in FenceAt(t) : (i < Len(t) /\ t[i + 1] = TAGJSON) => i = Min(FenceAt(t))

\* what stands between the two fences
Inside(t) == SubSeq(t, Min(FenceAt(t)) + 1, Min(FenceAt(t) \ {Min(FenceAt(t))}) - 1)

\* The opening fence carries a language tag: the word json, or another word that
\* ends the fence's line.
HasTag(inside) ==
    /\ inside # <<>>
    /\ \/ inside[1] = TAGJSON
       \/ inside[1] = PY /\ Len(inside) >= 2 /\ inside[2] = "\n"

BlockContent(inside) == IF HasTag(inside) THEN Tail(inside) ELSE inside

\* C4 as stated: once the mocked response has been handled, the text handed to the
\* parser is the trimmed content of the fenced block, its language tag (if any)
\* left out; without a fence it is the whole trimmed text.
C4_FencedContentOnly ==
    (mode = "mock" /\ calls >= 1) =>
        LET t == Strip(mock)
        IN  /\ OneBlock(t) => result_text = Strip(BlockContent(Inside(t)))
            /\ FenceAt(t) = {} => result_text = t

\* the first position of t at or after k that holds a fence, Len(t) + 1 if none
FenceFrom(t, k) == Min({j \in k..Len(t) : t[j] = FENCE} \cup {Len(t) + 1})

JsonFenceAt(t) == {i \in 1..(Len(t) - 1) : t[i] = FENCE /\ t[i + 1] = TAGJSON}

\* C4 amended: the text handed to the parser is, trimmed: what follows the first
\* fence tagged json up to the next fence (or the end) if the trimmed response
\* holds a fence tagged json; else what follows the first fence up to the next
\* fence (or the end), any other language tag included, if it holds a fence; else
\* the whole trimmed response.  A response without a fence that is not JSON ends,
\* after max_retries calls, in ParseError with the trimmed response as raw_response.
C4_FenceExtraction ==
    (mode = "mock" /\ calls >= 1) =>
        LET t == Strip(mock)
            parsed_text ==
                IF JsonFenceAt(t) # {}
                THEN LET i == Min(JsonFenceAt(t))
                     IN  Strip(SubSeq(t, i + 2, FenceFrom(t, i + 2) - 1))
                ELSE IF FenceAt(t) # {}
                THEN LET i == Min(FenceAt(t))
                     IN  Strip(SubSeq(t, i + 1, FenceFrom(t, i + 1) - 1))
                ELSE t
        IN  /\ result_text = parsed_text
            /\ parsed_text = <<OBJ>> =>
                   /\ pc = "done" /\ calls = 1
                   /\ result = JDict([failure_type |-> JStr(<<"Beam Generation">>)])
            /\ parsed_text # <<OBJ>> =>
                   /\ pc \in {"loop", "done"}
                   /\ pc = "done" <=> calls = max_retries
                   /\ pc = "done" =>
                          result = ParseErrorResult(parsed_text, DecodeErrorMsg(parsed_text))

\* a block tagged json is parsed on the first call
C4_Witness ==
    /\ mode = "mock" /\ pc = "done" /\ calls = 1
    /\ mock = <<FENCE, TAGJSON, "\n", OBJ, FENCE>>
    /\ result = JDict([failure_type |-> JStr(<<"Beam Generation">>)])

\* ----------------------------------------------------------- claims C6-C8
\* the columns of the extraction output
FixedKeys ==
    {"work_order_id", "machine_id", "subject", "description", "malfunction_start",
     "machine_release", "time_in", "time_out", "down_time_hours", "site_hours",
     "travel_hours", "total_work_hours", "report_source", "file_name"}

\* the file name a row carries for the file f
RowName(f) == IF variant = 1 THEN f.name \o <<f.ext>> ELSE f.name

\* the PDF documents of the folder, in listing order: the batch's input
InputDocs ==
    SelectSeq(folder, LAMBDA f : IF variant = 1 THEN f.ext = ".pdf"
                                 ELSE f.ext \in {".pdf", ".PDF"})

\* C6: no error is fatal to a batch: neither an extraction batch runner nor
\* classify_dataframe is left by an exception, and when the extraction batch has
\* returned, every input document that can be read has its row in the output,
\* whatever happened to the documents before it.
C6_NoFatalError ==
    /\ bpc # "raised"
    /\ pc # "raised"
    /\ bpc = "returned" =>
          \A i \in 1..Len(InputDocs) :
              InputDocs[i].doc.readable =>
                  \E j \in 1..Len(frame) : frame[j].file_name = JStr(RowName(InputDocs[i]))

\* C7: a batch over N input documents that can be read, whether their text
\* matches the patterns or not, collects one record per document in input order
\* and returns exactly N rows in that order, each with the fixed key set.
C7_BatchRows ==
    /\ bpc = "loop" =>
          /\ Len(data) = idx - 1
          /\ \A i \in 1..Len(data) : data[i].file_name = JStr(RowName(InputDocs[i]))
    /\ bpc = "returned" =>
          /\ Len(frame) = Len(InputDocs)
          /\ \A i \in 1..Len(frame) :
                /\ DOMAIN frame[i] = FixedKeys
                /\ frame[i].file_name = JStr(RowName(InputDocs[i]))

\* a batch of two documents has returned two rows: the first document matched
\* the work order pattern, the second matched nothing
C7_Witness ==
    /\ bpc = "returned"
    /\ Len(InputDocs) = 2
    /\ Len(frame) = 2
    /\ frame[1].work_order_id \notin {PyNone, JStr(<<>>)}
    /\ frame[2].work_order_id \in {PyNone, JStr(<<>>)}
    /\ InputDocs[2].doc = Readable(<<PageLine>>)

\* C8: classify_dataframe applies classify_report to the rows in input order, is
\* not left by an exception, and returns a table with the same rows in the same
\* order, each with the result of classify_report under llm_classification and,
\* under failure_type, that mapping's failure_type ("Error" when the result is no
\* mapping or lacks the key).
C8_TableReturned ==
    mode = "dataframe" =>
        /\ pc # "raised"
        /\ pc \in {"loop", "done"} =>
              /\ Len(column) = rowIdx - 1
              /\ subject = PyStr(rows[rowIdx].subject)
              /\ description = PyStr(rows[rowIdx].description)
        /\ pc = "returned" =>
              /\ Len(table) = Len(rows)
              /\ \A i \in 1..Len(table) :
                    LET x == table[i].llm_classification
                    IN  /\ table[i].subject = rows[i].subject
                        /\ table[i].description = rows[i].description
                        /\ x = column[i]
                        /\ table[i].failure_type =
                              IF x.t = "dict" /\ "failure_type" \in DOMAIN x.d
                              THEN x.d.failure_type
                              ELSE JStr(<<"Error">>)

\* ---------------------------------------------------------- claims C9-C10
\* the fragments of the document the i-th record was extracted from
FragmentsOf(i) == pdf_files[i].doc.chunks
HasFragment(i, c) == \E k \in 1..Len(FragmentsOf(i)) : FragmentsOf(i)[k] = c

\* the value a field rule of the running script gives when its pattern is absent
Fallback == IF variant = 1 THEN PyNone ELSE JStr(<<>>)

\* the fragment that holds the running script's work order line and subject line,
\* and the work order id that line gives
HeadFragment == IF variant = 1 THEN T1Head ELSE IF variant = 2 THEN T2Head ELSE T3Head
HeadWorkOrder ==
    IF variant = 1 THEN <<"WO-", "12345">>
    ELSE IF variant = 2 THEN <<"4001">> ELSE <<"WO-", "777">>

IsTimeRow(c) ==
    IF variant = 2 THEN c \in {T2RowA, T2RowB} ELSE c \in {T3TimesX, T3TimesY}
TimeRows(i) == SelectSeq(FragmentsOf(i), IsTimeRow)
\* a row's date and start time, and its date and end time
RowStart(c) ==
    IF variant = 2 THEN <<c[1], " ">> \o SubSeq(c, 3, 5)
    ELSE SubSeq(c, Len(T3Header) + 1, Len(T3Header) + 3)
RowEnd(c) ==
    IF variant = 2 THEN <<c[1], " ">> \o SubSeq(c, 7, 9)
    ELSE SubSeq(c, Len(T3Header) + 5, Len(T3Header) + 7)

\* C10 as stated: the type 2 and type 3 scripts take time_in from the first row
\* of the table of date/time rows of the text and time_out from its last row, and
\* give the empty string when the table has no rows.
C10_FirstAndLastRow ==
    variant \in {2, 3} =>
        \A i \in 1..Len(data) :
            LET rws == TimeRows(i)
            IN  /\ data[i].time_in =
                      JStr(IF rws = <<>> THEN <<>> ELSE RowStart(rws[1]))
                /\ data[i].time_out =
                      JStr(IF rws = <<>> THEN <<>> ELSE RowEnd(rws[Len(rws)]))

\* C10 amended: only the type 2 script reads a table of rows (time_in from the
\* first row's date and start time, time_out from the last row's date and end
\* time, both empty without a row).  The type 3 script reads the first block of
\* four timestamps under the header "Time In Time Out Malfunction Start Machine
\* Release Time": time_in is its first timestamp and time_out its second, both
\* empty without such a block.  The type 1 script reads the labeled fields
\* "Time In" and "Time Out", null when absent.
C10_TimeInOut ==
    \A i \in 1..Len(data) :
        LET rws == TimeRows(i)
        IN  /\ variant = 1 =>
                  /\ data[i].time_in =
                        IF HasFragment(i, T1Times)
                        THEN JStr(<<D1, " ", "09:15", " ", "AM">>) ELSE PyNone
                  /\ data[i].time_out =
                        IF HasFragment(i, T1Times)
                        THEN JStr(<<D1, " ", "11:45", " ", "PM">>) ELSE PyNone
            /\ variant = 2 =>
                  /\ data[i].time_in =
                        JStr(IF rws = <<>> THEN <<>> ELSE RowStart(rws[1]))
                  /\ data[i].time_out =
                        JStr(IF rws = <<>> THEN <<>> ELSE RowEnd(rws[Len(rws)]))
            /\ variant = 3 =>
                  /\ data[i].time_in =
                        JStr(IF rws = <<>> THEN <<>> ELSE RowStart(rws[1]))
                  /\ data[i].time_out =
                        JStr(IF rws = <<>> THEN <<>> ELSE RowEnd(rws[1]))

\* the type 3 script has returned the row of a text with two blocks of
\* timestamps: time_out is the second timestamp of the first block
C10_Witness ==
    /\ variant = 3
    /\ bpc = "returned"
    /\ Len(frame) = 1
    /\ FragmentsOf(1) = <<T3TimesX, T3TimesY>>
    /\ frame[1].time_in = JStr(<<D1, " ", "09:15">>)
    /\ frame[1].time_out = JStr(<<D1, " ", "11:45">>)

\* --------------------------------------------------------- claims C11-C12
\* a sentinel: a mapping with failure_type name and exactly the other keys given
IsSentinel(r, name, others) ==
    /\ r.t = "dict"
    /\ DOMAIN r.d = {"failure_type"} \cup others
    /\ r.d.failure_type = JStr(<<name>>)

TransportFailures == {"call_raised", "call_raised_json", "no_content"}

\* every one of the max_retries attempts has failed, some in parsing the
\* response and some before a response was there
AllFailedMixed ==
    /\ max_retries >= 1
    /\ Len(hist) = max_retries
    /\ \A i \in 1..Len(hist) : hist[i] \in TransportFailures \cup {"parse_failed"}
    /\ \E i \in 1..Len(hist) : hist[i] = "parse_failed"
    /\ \E i \in 1..Len(hist) : hist[i] \in TransportFailures

\* C12: when all max_retries attempts fail, with parse failures and transport
\* failures among them, classify_report returns after exactly max_retries calls
\* the sentinel of the final attempt alone: ParseError, with that attempt's
\* response text and parse error, if the final attempt failed to parse; APIError,
\* with that attempt's message, if the final attempt's call raised or gave no
\* content.
C12_FinalAttemptDecides ==
    AllFailedMixed =>
        /\ pc = "done"
        /\ calls = max_retries
        /\ LastAttempt("parse_failed") =>
              LET t == ExtractJSONText(last.content)
              IN  result = ParseErrorResult(t, DecodeErrorMsg(t))
        /\ (LastAttempt("call_raised") \/ LastAttempt("call_raised_json")) =>
              result = APIErrorResult(last.msg)
        /\ LastAttempt("no_content") =>
              IsSentinel(result, "APIError", {"error"})

====
